---- MODULE Spec2Model ----
(***************************************************************************)
(* TunnelForge: the tunnel server's request routing and correlation.       *)
(*                                                                         *)
(* The programs of the repository that are modelled:                       *)
(*                                                                         *)
(*  Spec      the WebSocket tunnel server, src/server/src/tunnelServer.ts  *)
(*            with src/server/src/services/tunnelManager.ts: one socket    *)
(*            per tunnel, one global pendingResponses map.                 *)
(*  SpecFair  Spec with the fairness of Node's timers: an armed            *)
(*            setTimeout callback eventually runs.                         *)
(*  SpecPool  the pooled data-connection server of                         *)
(*            src/tls-based-implementation-changes.md: ConnectionPool and  *)
(*            the pooled handleTunnelRequest / handleDataConnection.       *)
(*  SpecTeardown  SpecPool with the destruction of a tunnel, as the        *)
(*            documents describe it.                                       *)
(*  SpecDns   the subdomain registry and routing of src/unnamed/part_005.  *)
(*  SpecFrame the length-prefixed framing, readMessage and writeMessage,   *)
(*            of src/tls-based-implementation-changes.md.                  *)
(*  SpecReplenish  the size of a ConnectionPool: the open_data_connection  *)
(*            frames requested and the connections the client opens.       *)
(*  SpecHeartbeat  monitorConnections of                                   *)
(*            src/implementation-changes-plan.md: the heartbeat sweep.     *)
(*  SpecClient  the tunnel client, src/server/bin/connect.ts.              *)
(*  SpecRate  the rate limiter middleware and the allowance in a tunnel's  *)
(*            stats, on the requests for one tunnel.                       *)
(*  SpecReconnect  the planned client's startTunnel of                     *)
(*            src/tls-based-implementation-changes.md: reconnection after  *)
(*            a failed or closed control connection.                       *)
(*  SpecDataConn  the same client's openDataConnection: the replacement    *)
(*            of data connections that fail or close.                      *)
(***************************************************************************)
EXTENDS Integers, Sequences, FiniteSets

\* ------------------------------------------------------------------ bounds
\* Sockets the WebSocket server accepts in one run.
MaxSock == 2
\* Public HTTP requests the server receives in one run.
MaxReq == 2
\* Data connections the tunnel client opens in one run (SpecPool).
MaxConn == 2
\* Frames the peer writes with writeMessage in one run (SpecFrame).
MaxFrames == 2
\* The longest payload of a frame, in bytes (SpecFrame).
MaxPayload == 2
\* Data connections a pool is followed up to (SpecReplenish).
MaxPool == 11
\* open_data_connection frames the client has not answered yet (SpecReplenish).
MaxOutstanding == 5
\* Periods of 30 seconds the clock is followed for (SpecHeartbeat).
MaxTicks == 3
\* Steps of the clock in one rate-limit window of fifteen minutes (SpecRate).
WindowTicks == 2
\* Reconnections the planned client schedules in one run (SpecReconnect).
MaxFailures == 5
\* Data sockets and replacement timers the planned client has at once
\* (SpecDataConn).
MaxHeld == 8

Sockets == 1..MaxSock
Callers == 1..MaxReq
ReqIds == 1..MaxReq
NoTunnel == 0
NoId == 0

\* ------------------------------------------------------- WebSocket server
VARIABLES
    sockState,          \* per accepted socket: its place in the connection handler
    tunnels,            \* TunnelManager.tunnels: the registered tunnel ids
    pendingResponses,   \* TunnelServer.pendingResponses: requestId -> {res, timeout}
    timeout,            \* per request id: the state of its setTimeout handle
    requestId,          \* per HTTP caller: the uuid generated for its request
    reqTunnel,          \* per HTTP caller: the tunnel its URL named
    res,                \* per HTTP caller: the express Response object
    stats,              \* per tunnel id: Tunnel.stats of the registered tunnel
    sent                \* per socket: the ids of the request frames sent on it

statVars == <<stats, sent>>
wsVars == <<sockState, tunnels, pendingResponses, timeout, requestId, reqTunnel, res,
            statVars>>

\* ---------------------------------------------------- pooled server (SpecPool)
VARIABLES
    connections,        \* ConnectionPool.connections of the tunnel: DataConnection[]
    poolExists,         \* whether connectionPools holds a pool for the tunnel
    dataSock,           \* per data connection id: the state of its TLS socket
    writing             \* request ids whose writeMessage has not settled yet

poolVars == <<connections, poolExists, dataSock, writing>>

\* ------------------------------------------- subdomain routing (SpecDns)
VARIABLES
    subdomainToTunnelMap,   \* TunnelServer.subdomainToTunnelMap: subdomain -> tunnel id
    tunnelSubdomain,        \* per tunnel id: Tunnel.subdomain of the Tunnel object
    requestedSubdomain      \* per tunnel id: the options.subdomain it was created with

dnsVars == <<subdomainToTunnelMap, tunnelSubdomain, requestedSubdomain>>

\* ------------------------------------------- message framing (SpecFrame)
VARIABLES
    written,        \* the payloads the peer passed to writeMessage, in order
    wire,           \* bytes written by the peer that have not arrived yet
    buffer,         \* bytes in the socket's read buffer, not yet read
    closed,         \* "open", "ended" (end of stream received) or "destroyed"
    emit,           \* a 'readable' event is scheduled and has not run yet
    listener,       \* the once('readable') callback that is attached, if any
    messageLength,  \* the length readUInt32BE decoded last
    promise,        \* the Promise of the readMessage call the application made last
    results,        \* the payloads readMessage resolved with, in order
    fault,          \* readUInt32BE threw inside a 'readable' callback
    oversized,      \* the peer wrote a prefix that declares more than the maximum
    cut             \* the connection closed inside a frame while a call was pending

frameVars == <<written, wire, buffer, closed, emit, listener, messageLength, promise,
               results, fault, oversized, cut>>

\* --------------------------------------- pool replenishment (SpecReplenish)
VARIABLES
    registered,     \* connections.length of the tunnel's pool
    busy,           \* how many of them have inUse set
    outstanding,    \* open_data_connection frames the client has not answered yet
    initialLeft     \* initial data connections the client has still to open

replVars == <<registered, busy, outstanding, initialLeft>>

\* ------------------------------------------- heartbeat sweep (SpecHeartbeat)
VARIABLES
    clock,                  \* Date.now(), in milliseconds since the server started
    controlConnections,     \* keys of TunnelServer.controlConnections
    lastHeartbeat,          \* per tunnel id: ControlConnection.lastHeartbeat
    controlSocket,          \* per tunnel id: the state of ControlConnection.socket
    dataConnectionPools     \* per tunnel id: its pool holds an available connection

hbVars == <<clock, controlConnections, lastHeartbeat, controlSocket, dataConnectionPools>>

\* ---------------------------------------------- tunnel client (SpecClient)
VARIABLES
    ws,             \* readyState of the client's WebSocket
    process,        \* "running", or the exit code of the client process
    localCall,      \* per request id: the axios call, its phase and its outcome
    responses       \* per request id: the statusCodes of the responses sent

clientVars == <<ws, process, localCall, responses>>

\* ------------------------------------------------- rate limits (SpecRate)
VARIABLES
    hits,                   \* the rate limiter middleware's count for the tunnel's key
    rateLimitRemaining,     \* tunnel.stats.rateLimitRemaining
    resetIn,                \* steps until tunnel.stats.rateLimitReset; -1 once passed
    limiterIn,              \* steps until the rate limiter's resetTime; 0 once reached
    forwarded,              \* requests sent to the client since rateLimitReset was set
    lastAnswer,             \* how far the latest request got
    counted                 \* what the latest request added to stats.requestCount

rateVars ==
    <<hits, limiterIn, rateLimitRemaining, resetIn, forwarded, lastAnswer, counted>>

\* ------------------- the planned client (SpecReconnect, SpecDataConn)
VARIABLES
    control,            \* the control connection: "connecting", "open" or "waiting"
    reconnectAttempts,  \* startTunnel's local variable of the running invocation
    backoffs,           \* the backoffTime of every reconnection scheduled, in order
    live,               \* data sockets that are connecting or open
    errored,            \* data sockets that emitted 'error' and not yet 'close'
    scheduled           \* setTimeout callbacks that will call openDataConnection

planVars == <<control, reconnectAttempts, backoffs, live, errored, scheduled>>

moreVars == <<replVars, hbVars, clientVars, rateVars, planVars>>

\* The state of the programs a specification does not run.
extVars == <<dnsVars, frameVars, moreVars>>

\* The state of the programs of the earlier sections.
baseVars == <<wsVars, poolVars, dnsVars, frameVars>>

\* The state outside the pool's size, outside the heartbeat sweep.
notRepl == <<baseVars, hbVars, clientVars, rateVars, planVars>>
notHb == <<baseVars, replVars, clientVars, rateVars, planVars>>
notClient == <<baseVars, replVars, hbVars, rateVars, planVars>>
notRate == <<baseVars, replVars, hbVars, clientVars, planVars>>
notPlan == <<baseVars, replVars, hbVars, clientVars, rateVars>>

\* Subdomain names; NoName is an absent options.subdomain or Tunnel.subdomain.
Subdomains == 1..(MaxSock + 1)
NoName == 0

DnsIdle ==
    /\ subdomainToTunnelMap = << >>
    /\ tunnelSubdomain = [s \in Sockets |-> NoName]
    /\ requestedSubdomain = [s \in Sockets |-> NoName]

\* A connected socket nothing was written to, before the first readMessage.
FrameIdle ==
    /\ written = << >>
    /\ wire = << >>
    /\ buffer = << >>
    /\ closed = "open"
    /\ emit = FALSE
    /\ listener = "none"
    /\ messageLength = 0
    /\ promise = "none"
    /\ results = << >>
    /\ fault = FALSE
    /\ oversized = FALSE
    /\ cut = FALSE

\* The data connections the client opens by itself on tunnel_registered.
InitialConnections == 3

\* An empty pool after the tunnel's registration.
ReplIdle ==
    /\ registered = 0
    /\ busy = 0
    /\ outstanding = 0
    /\ initialLeft = InitialConnections

\* A server without control connections, at its start.
HbIdle ==
    /\ clock = 0
    /\ controlConnections = {}
    /\ lastHeartbeat = [t \in Sockets |-> 0]
    /\ controlSocket = [t \in Sockets |-> "none"]
    /\ dataConnectionPools = [t \in Sockets |-> FALSE]

\* The client after new WebSocket(options.server).
ClientIdle ==
    /\ ws = "connecting"
    /\ process = "running"
    /\ localCall = [id \in ReqIds |-> [phase |-> "none", outcome |-> 0]]
    /\ responses = [id \in ReqIds |-> << >>]

\* TunnelStats as createTunnel sets them, and the stats of an id without tunnel.
DefaultRateLimit == 100
NewStats == [requestCount |-> 0, rateLimitRemaining |-> DefaultRateLimit]
NoStats == [requestCount |-> 0, rateLimitRemaining |-> 0]

\* One tunnel as createTunnel leaves it, before its first request.
RateIdle ==
    /\ hits = 0
    /\ rateLimitRemaining = NewStats.rateLimitRemaining
    /\ resetIn = WindowTicks
    /\ limiterIn = 0
    /\ forwarded = 0
    /\ lastAnswer = "none"
    /\ counted = 0

\* The planned client when startTunnel is called first: no data connection yet.
PlanIdle ==
    /\ control = "connecting"
    /\ reconnectAttempts = 0
    /\ backoffs = << >>
    /\ live = 0
    /\ errored = 0
    /\ scheduled = 0

ExtIdle ==
    DnsIdle /\ FrameIdle /\ ReplIdle /\ HbIdle /\ ClientIdle /\ RateIdle /\ PlanIdle

\* The Response of a caller that has not been answered. statusCode and ended
\* are what the caller sees; the other fields record the write that ended it:
\* how many writes ended it, which handler wrote (by), the requestId of the
\* frame whose status, headers and body were written (from), the socket whose
\* handler wrote (via), and in the pooled server the data connection the
\* request was dispatched on (conn).
FreshRes ==
    [statusCode |-> 0, ended |-> FALSE, writes |-> 0, by |-> "none", from |-> NoId,
     via |-> 0, conn |-> 0]

\* What a tunnel client can put in one WebSocket frame after registration:
\* text that JSON.parse rejects, or an object whose requestId, statusCode and
\* headers the handler reads. wellFormed is FALSE when headers is not an
\* object (Object.entries throws) or the status code is one res.end rejects;
\* the handler then throws between clearTimeout and pendingResponses.delete.
StatusCodes == {200}
TunnelMessages ==
    [parses : {TRUE}, requestId : ReqIds, statusCode : StatusCodes, wellFormed : BOOLEAN]
    \cup {[parses |-> FALSE, requestId |-> NoId, statusCode |-> 0, wellFormed |-> FALSE]}

\* The first frame of a socket: {port} with a numeric port ("ok"), the same
\* with an auth_token beside it ("ok_token"), or a frame without such a port.
FirstMessages == {"ok", "ok_token", "no_port", "unparseable"}

\* The frame holds an auth token. The handler reads port only.
CarriesToken(m) == m = "ok_token"

\* uuidv4(): an id no earlier request was given.
UsedIds == {requestId[h] : h \in Callers} \ {NoId}
FreshId == Cardinality(UsedIds) + 1

\* The HTTP callers that have arrived so far.
Arrived == {h \in Callers : reqTunnel[h] # NoTunnel}
NextCaller == Cardinality(Arrived) + 1

\* Sockets whose "message" and "close" handlers of the tunnel are attached.
HasHandlers(s) == sockState[s] \in {"registered", "closing"}

\* Sockets are numbered in the order their first frame arrives; a socket that
\* has sent none has no handler that touches the server's state.
Accepted == {s \in Sockets : sockState[s] # "connected"}
NextSocket == Cardinality(Accepted) + 1

WsInit ==
    /\ sockState = [s \in Sockets |-> "connected"]
    /\ tunnels = {}
    /\ pendingResponses = << >>
    /\ timeout = [i \in ReqIds |-> "none"]
    /\ requestId = [h \in Callers |-> NoId]
    /\ reqTunnel = [h \in Callers |-> NoTunnel]
    /\ res = [h \in Callers |-> FreshRes]
    /\ stats = [s \in Sockets |-> NoStats]
    /\ sent = [s \in Sockets |-> {}]

\* Map.delete(id)
MapDelete(m, id) == [k \in (DOMAIN m) \ {id} |-> m[k]]
\* Map.set(id, v)
MapSet(m, id, v) == [k \in (DOMAIN m) \cup {id} |-> IF k = id THEN v ELSE m[k]]

\* A registration check that only asks for a frame JSON.parse accepts.
ParsesOnly(m) == m # "unparseable"
\* The first frame registers when it parses and port is a non-zero number.
ValidRegistration(m) == m \in {"ok", "ok_token"}

\* A registration listener attached with on("message"): it runs on every frame
\* of the socket.
OnMessage(s) == sockState[s] \in {"connected", "registered", "closing"}
\* socket.once("message", ...): the registration listener is attached until
\* the socket's first frame has arrived.
OnceMessage(s) == sockState[s] = "connected"

\* socket.once("message"): the registration frame. An invalid one is answered
\* socket.close(1008).
FirstMessage(s, m) ==
    /\ OnceMessage(s)
    /\ sockState[s] = "connected" => s = NextSocket
    /\ IF ValidRegistration(m)
       THEN /\ tunnels' = tunnels \cup {s}
            /\ stats' = [stats EXCEPT ![s] = NewStats]
            /\ sockState' = [sockState EXCEPT ![s] = "registered"]
       ELSE /\ sockState' = [sockState EXCEPT ![s] = "rejected"]
            /\ UNCHANGED <<tunnels, stats>>
    /\ UNCHANGED <<extVars, pendingResponses, timeout, requestId, reqTunnel, res, sent, poolVars>>

\* A later frame on a socket whose first frame was rejected: the once-listener
\* is spent and no other listener was attached.
MessageAfterReject(s) ==
    /\ sockState[s] = "rejected"
    /\ UNCHANGED <<extVars, wsVars, poolVars>>

\* clearTimeout(timeout): the callback of a cleared handle never runs. A handle
\* is "none" before setTimeout, "armed" after it, "done" once cleared or run.
ClearTimeout(t) == IF t = "armed" THEN "done" ELSE t

\* A correlation by arrival order instead of by id: the oldest pending entry.
LookupOldest(m) ==
    IF DOMAIN pendingResponses # {}
    THEN {pendingResponses[CHOOSE i \in DOMAIN pendingResponses :
                             \A j \in DOMAIN pendingResponses : i <= j]}
    ELSE {}

\* The response handler's lookup: pendingResponses.get(response.requestId).
LookupPending(m) ==
    IF m.requestId \in DOMAIN pendingResponses THEN {pendingResponses[m.requestId]} ELSE {}

\* socket.on("message"): a frame from the client of tunnel s after registration.
TunnelMessage(s, m) ==
    /\ HasHandlers(s)
    /\ m.parses
    /\ LookupPending(m) # {}
    /\ LET pendingResponse == CHOOSE p \in LookupPending(m) : TRUE
           h == pendingResponse.res
       IN  /\ timeout' = [timeout EXCEPT ![pendingResponse.timeout] = ClearTimeout(@)]
           /\ IF m.wellFormed
              THEN /\ res' = [res EXCEPT ![h] =
                          [statusCode |-> m.statusCode, ended |-> TRUE,
                           writes |-> res[h].writes + 1, by |-> "response",
                           from |-> m.requestId, via |-> s, conn |-> 0]]
                   /\ pendingResponses' = MapDelete(pendingResponses, m.requestId)
              ELSE \* The handler threw into its catch before res.end: the status
                   \* it assigned is overwritten by whichever write comes later.
                   /\ UNCHANGED <<res, pendingResponses>>
    /\ UNCHANGED <<extVars, sockState, tunnels, requestId, reqTunnel, statVars, poolVars>>

\* A frame that changes nothing: JSON.parse throws, or no entry has its id.
TunnelMessageIgnored(s) ==
    /\ HasHandlers(s)
    /\ \E m \in TunnelMessages : ~m.parses \/ LookupPending(m) = {}
    /\ UNCHANGED <<extVars, wsVars, poolVars>>

\* A removal that leaves the tunnel in the registry.
TunnelsKeep(ts, id) == ts
\* removeTunnel(id) on a registered id: this.tunnels.delete(id).
TunnelsDelete(ts, id) == ts \ {id}

\* TunnelManager.removeTunnel(id): what it returns, and the registry it leaves.
RemoveTunnelReturns(ts, id) == id \in ts
RemoveTunnelRegistry(ts, id) == IF id \in ts THEN TunnelsDelete(ts, id) ELSE ts

\* A close handler whose loop stops after the first entry.
ClosedPendingFirst(s) ==
    {i \in DOMAIN pendingResponses : \A j \in DOMAIN pendingResponses : i <= j}

\* The entries the close handler of tunnel s fails: its for-of loop runs over
\* this.pendingResponses.entries().
ClosedPending(s) == DOMAIN pendingResponses

\* The socket's "close" event. TunnelManager's listener removes the tunnel,
\* then TunnelServer's listener answers the pending requests.
SocketClose(s) ==
    /\ sockState[s] \in {"registered", "closing"}
    /\ sockState' = [sockState EXCEPT ![s] = "closed"]
    /\ tunnels' = RemoveTunnelRegistry(tunnels, s)
    /\ stats' = [stats EXCEPT ![s] = NoStats]
    /\ res' = [h \in Callers |->
                 IF \E id \in ClosedPending(s) : pendingResponses[id].res = h
                 THEN [res[h] EXCEPT !.statusCode = 504, !.ended = TRUE,
                                     !.writes = @ + 1, !.by = "disconnect", !.via = s]
                 ELSE res[h]]
    /\ pendingResponses' =
         [id \in (DOMAIN pendingResponses) \ ClosedPending(s) |-> pendingResponses[id]]
    /\ UNCHANGED <<extVars, timeout, requestId, reqTunnel, sent, poolVars>>

\* DELETE /api/tunnels/:id: removeTunnel(t). It closes the socket of the tunnel
\* it found; for an id it did not find nothing changes and the API answers 404.
RemoveTunnel(t) ==
    /\ tunnels' = RemoveTunnelRegistry(tunnels, t)
    /\ sockState' = IF t \in tunnels THEN [sockState EXCEPT ![t] = "closing"] ELSE sockState
    /\ stats' = [stats EXCEPT ![t] = NoStats]
    /\ UNCHANGED <<extVars, pendingResponses, timeout, requestId, reqTunnel, res, sent, poolVars>>

\* A handler that sends the frame before it calls setTimeout: no handle yet.
SetTimeoutAfterSend == "none"
\* const timeout = setTimeout(..., 30000), before pendingResponses.set and
\* tunnel.socket.send: the handle of an armed timer.
SetTimeout == "armed"

\* The order of handleTunnelRequest's three statements on the request id.
DispatchEntry(h, id) == [res |-> h, timeout |-> id]

\* A lookup that finds a tunnel for every id.
GetTunnelAny(ts, id) == TRUE
\* tunnelManager.getTunnel(id) !== undefined
GetTunnel(ts, id) == id \in ts

\* Date.now() > rateLimitReset, for the requests of one run: a run's requests
\* all arrive within the fifteen minutes of a tunnel's first window.
WindowOver == {FALSE}

\* An incrementRequestCount whose reset adds the default limit to what remains.
IncrementRequestCountAdding(st, windowOver) ==
    [requestCount |-> st.requestCount + 1,
     rateLimitRemaining |-> IF windowOver THEN st.rateLimitRemaining + DefaultRateLimit
                            ELSE IF st.rateLimitRemaining - 1 > 0
                                 THEN st.rateLimitRemaining - 1 ELSE 0]

\* incrementRequestCount on the stats st of a tunnel; windowOver tells whether
\* Date.now() > rateLimitReset.
IncrementRequestCount(st, windowOver) ==
    [requestCount |-> st.requestCount + 1,
     rateLimitRemaining |-> IF windowOver THEN DefaultRateLimit
                            ELSE IF st.rateLimitRemaining - 1 > 0
                                 THEN st.rateLimitRemaining - 1 ELSE 0]

\* handleTunnelRequest for the URL /t/...: 404 when no tunnel has that id (or
\* the path holds none), 429 when the tunnel's allowance is used up; else count
\* the request, arm the timer, store the entry, send the request frame.
HandleTunnelRequest(t) ==
    /\ NextCaller \in Callers
    /\ LET h == NextCaller
           id == FreshId
       IN  /\ reqTunnel' = [reqTunnel EXCEPT ![h] = t]
           /\ IF ~GetTunnel(tunnels, t)
              THEN /\ res' = [res EXCEPT ![h] = [FreshRes EXCEPT !.statusCode = 404,
                                       !.ended = TRUE, !.writes = 1, !.by = "notfound"]]
                   /\ UNCHANGED <<pendingResponses, timeout, requestId, statVars>>
              ELSE IF stats[t].rateLimitRemaining <= 0
              THEN /\ res' = [res EXCEPT ![h] = [FreshRes EXCEPT !.statusCode = 429,
                                       !.ended = TRUE, !.writes = 1, !.by = "ratelimit"]]
                   /\ UNCHANGED <<pendingResponses, timeout, requestId, statVars>>
              ELSE /\ \E windowOver \in WindowOver :
                         stats' = [stats EXCEPT ![t] = IncrementRequestCount(@, windowOver)]
                   /\ requestId' = [requestId EXCEPT ![h] = id]
                   /\ timeout' = [timeout EXCEPT ![id] = SetTimeout]
                   /\ pendingResponses' = MapSet(pendingResponses, id, DispatchEntry(h, id))
                   /\ sent' = [sent EXCEPT ![t] = @ \cup {id}]
                   /\ UNCHANGED res
    /\ UNCHANGED <<extVars, sockState, tunnels, poolVars>>

\* The setTimeout callback of request id, 30 seconds after dispatch.
TimeoutFires(id) ==
    /\ timeout[id] = "armed"
    /\ timeout' = [timeout EXCEPT ![id] = "done"]
    /\ IF id \in DOMAIN pendingResponses
       THEN /\ res' = [res EXCEPT ![pendingResponses[id].res] =
                         [@ EXCEPT !.statusCode = 504, !.ended = TRUE, !.writes = @ + 1,
                                   !.by = "timeout"]]
            /\ pendingResponses' = MapDelete(pendingResponses, id)
       ELSE UNCHANGED <<res, pendingResponses>>
    /\ UNCHANGED <<extVars, sockState, tunnels, requestId, reqTunnel, statVars, poolVars>>

Next ==
    \/ \E s \in Sockets, m \in FirstMessages : FirstMessage(s, m)
    \/ \E s \in Sockets : MessageAfterReject(s)
    \/ \E s \in Sockets, m \in TunnelMessages : TunnelMessage(s, m)
    \/ \E s \in Sockets : TunnelMessageIgnored(s)
    \/ \E s \in Sockets : SocketClose(s)
    \/ \E t \in Sockets : RemoveTunnel(t)
    \/ \E t \in Sockets : HandleTunnelRequest(t)
    \/ \E id \in ReqIds : TimeoutFires(id)

vars == <<wsVars, poolVars, extVars>>

\* The pooled server's state while the WebSocket server runs: no pool.
PoolIdle ==
    /\ connections = << >>
    /\ poolExists = FALSE
    /\ dataSock = [c \in {} |-> "unopened"]
    /\ writing = {}

Init == WsInit /\ PoolIdle /\ ExtIdle
Spec == Init /\ [][Next]_vars

\* Node runs the callback of every armed timer.
SpecFair == Spec /\ \A id \in ReqIds : WF_vars(TimeoutFires(id))

\* ------------------------------------------------------- subdomain routing
\* src/unnamed/part_005: the TunnelServer that gives every tunnel a subdomain,
\* and the TunnelManager.removeTunnel that frees it. SpecDns runs the
\* registrations and the removals; it receives no public request.

\* A check that finds every name free.
IsSubdomainAvailableAlways(map, subdomain) == TRUE
\* isSubdomainAvailable(subdomain)
IsSubdomainAvailable(map, subdomain) == subdomain \notin DOMAIN map

\* generateRandomSubdomain(): the names it can return. Its body is three
\* comments; it returns a name that is not taken.
GenerateRandomSubdomain(map) == Subdomains \ DOMAIN map

\* A registerSubdomain that takes a requested name without asking whether it
\* is free.
RegisterSubdomainUnchecked(map, requested) ==
    IF requested # NoName THEN {requested} ELSE GenerateRandomSubdomain(map)

\* registerSubdomain(tunnelId, requestedSubdomain): the names it can choose.
RegisterSubdomain(map, requested) ==
    IF requested # NoName /\ IsSubdomainAvailable(map, requested)
    THEN {requested}
    ELSE GenerateRandomSubdomain(map)

\* createTunnel(socket, port, options) for the socket s, options.subdomain
\* being requested.
DnsCreateTunnel(s, requested) ==
    /\ s = NextSocket
    /\ sockState[s] = "connected"
    /\ tunnels' = tunnels \cup {s}
    /\ stats' = [stats EXCEPT ![s] = NewStats]
    /\ sockState' = [sockState EXCEPT ![s] = "registered"]
    /\ \E subdomain \in RegisterSubdomain(subdomainToTunnelMap, requested) :
          /\ subdomainToTunnelMap' = MapSet(subdomainToTunnelMap, subdomain, s)
          /\ tunnelSubdomain' = [tunnelSubdomain EXCEPT ![s] = subdomain]
    /\ requestedSubdomain' = [requestedSubdomain EXCEPT ![s] = requested]
    /\ UNCHANGED <<pendingResponses, timeout, requestId, reqTunnel, res, sent, poolVars,
                   frameVars, moreVars>>

\* removeTunnel(id) of part_005 on the registry and the subdomain map.
DnsRemoveMap(map, ts, id) == IF id \in ts THEN MapDelete(map, tunnelSubdomain[id]) ELSE map

\* DELETE /api/tunnels/:id with the removeTunnel of part_005.
DnsRemoveTunnel(t) ==
    /\ subdomainToTunnelMap' = DnsRemoveMap(subdomainToTunnelMap, tunnels, t)
    /\ tunnels' = RemoveTunnelRegistry(tunnels, t)
    /\ sockState' = IF t \in tunnels THEN [sockState EXCEPT ![t] = "closing"] ELSE sockState
    /\ stats' = [stats EXCEPT ![t] = NoStats]
    /\ UNCHANGED <<tunnelSubdomain, requestedSubdomain, pendingResponses, timeout,
                   requestId, reqTunnel, res, sent, poolVars, frameVars, moreVars>>

\* The socket's "close" event: createTunnel's listener calls removeTunnel(id),
\* then TunnelServer's listener answers the pending requests.
DnsSocketClose(s) ==
    /\ sockState[s] \in {"registered", "closing"}
    /\ sockState' = [sockState EXCEPT ![s] = "closed"]
    /\ subdomainToTunnelMap' = DnsRemoveMap(subdomainToTunnelMap, tunnels, s)
    /\ tunnels' = RemoveTunnelRegistry(tunnels, s)
    /\ stats' = [stats EXCEPT ![s] = NoStats]
    /\ res' = [h \in Callers |->
                 IF \E id \in ClosedPending(s) : pendingResponses[id].res = h
                 THEN [res[h] EXCEPT !.statusCode = 504, !.ended = TRUE,
                                     !.writes = @ + 1, !.by = "disconnect", !.via = s]
                 ELSE res[h]]
    /\ pendingResponses' =
         [id \in (DOMAIN pendingResponses) \ ClosedPending(s) |-> pendingResponses[id]]
    /\ UNCHANGED <<timeout, requestId, reqTunnel, sent, poolVars, frameVars, moreVars,
                   tunnelSubdomain,
                   requestedSubdomain>>

DnsNext ==
    \/ \E s \in Sockets, requested \in Subdomains \cup {NoName} : DnsCreateTunnel(s, requested)
    \/ \E t \in Sockets : DnsRemoveTunnel(t)
    \/ \E s \in Sockets : DnsSocketClose(s)

SpecDns == Init /\ [][DnsNext]_vars

\* ------------------------------------------------------------ pooled server
\* src/tls-based-implementation-changes.md: one registered tunnel with its
\* ConnectionPool, and the TunnelServer methods that use the pool. Connection
\* ids are the client's uuids, one per data socket.

minPoolSize == 3
maxPoolSize == 10

ConnIds == 1..MaxConn
\* Hostnames a public request can carry: the tunnel's, and one no tunnel has.
PoolTunnel == 1
UnknownHost == 2
Hostnames == {PoolTunnel, UnknownHost}
\* A response header frame on a data connection: {type: "response", request_id,
\* status_code, headers}; hasHeaders tells whether headers holds any entry.
DataMessages == [requestId : ReqIds, statusCode : StatusCodes, hasHeaders : BOOLEAN]

Min(a, b) == IF a <= b THEN a ELSE b
Max(a, b) == IF a >= b THEN a ELSE b

\* Array.prototype.find / findIndex: the first of the matching indices, 0 for none.
FindIndex(matching) ==
    IF matching = {} THEN 0
    ELSE CHOOSE i \in matching : \A j \in matching : i <= j

IsAvailable(c) == ~c.inUse
\* A getConnection that takes the first connection whatever its flag.
GetConnectionAny(conns) == IF Len(conns) > 0 THEN 1 ELSE 0
\* getConnection: connections.find(c => !c.inUse), as an index (0: null).
GetConnection(conns) == FindIndex({i \in DOMAIN conns : IsAvailable(conns[i])})

\* A release on timeout that leaves the connection marked in use.
ReleaseConnectionNever(conns, id) == conns
\* releaseConnection(connectionId)
ReleaseConnection(conns, id) ==
    LET i == FindIndex({k \in DOMAIN conns : conns[k].connectionId = id})
    IN  IF i = 0 THEN conns ELSE [conns EXCEPT ![i].inUse = FALSE]

\* A removal by splice(index), which drops the entry and all that follow it.
RemoveConnectionAndRest(conns, id) ==
    LET i == FindIndex({k \in DOMAIN conns : conns[k].connectionId = id})
    IN  IF i = 0 THEN conns ELSE SubSeq(conns, 1, i - 1)

\* removeConnection(connectionId): splice(index, 1)
RemoveConnection(conns, id) ==
    LET i == FindIndex({k \in DOMAIN conns : conns[k].connectionId = id})
    IN  IF i = 0 THEN conns
        ELSE [k \in 1..(Len(conns) - 1) |-> IF k < i THEN conns[k] ELSE conns[k + 1]]

\* controlConnection.socket.readyState === 'open'
ControlOpen == sockState[PoolTunnel] = "registered"

\* requestNewConnection(): one open_data_connection frame on the control
\* connection when it is open, none otherwise.
RequestNewConnection(n) == IF ControlOpen THEN n + 1 ELSE n

\* ensureMinimumPoolSize(): the number of requestNewConnection calls.
EnsureMinimumPoolSize(conns) ==
    LET availableCount == Cardinality({i \in DOMAIN conns : ~conns[i].inUse})
        totalCount == Len(conns)
    IN  Max(0, Min(minPoolSize - availableCount, maxPoolSize - totalCount))

\* The data connections opened so far, in the order the client opened them.
Opened == {c \in ConnIds : dataSock[c] # "unopened"}
NextConn == Cardinality(Opened) + 1

PoolInit ==
    /\ sockState = [s \in Sockets |-> IF s = PoolTunnel THEN "registered" ELSE "connected"]
    /\ tunnels = {PoolTunnel}
    /\ pendingResponses = << >>
    /\ timeout = [i \in ReqIds |-> "none"]
    /\ requestId = [h \in Callers |-> NoId]
    /\ reqTunnel = [h \in Callers |-> NoTunnel]
    /\ res = [h \in Callers |-> FreshRes]
    /\ stats = [s \in Sockets |-> IF s = PoolTunnel THEN NewStats ELSE NoStats]
    /\ sent = [s \in Sockets |-> {}]
    /\ connections = << >>
    /\ poolExists = FALSE
    /\ dataSock = [c \in ConnIds |-> "unopened"]
    /\ writing = {}
    /\ ExtIdle

\* A write to the Response h: the first one ends it; a later res.status(..).json(..)
\* throws (headers already sent) and changes nothing the caller sees.
ResWrite(h, code, how) ==
    IF res[h].ended
    THEN [res EXCEPT ![h].writes = @ + 1]
    ELSE [res EXCEPT ![h].statusCode = code, ![h].ended = TRUE, ![h].writes = @ + 1,
                     ![h].by = how]

\* handleDataConnection: a new TLS socket announces data_connection for
\* tunnel t with connection id c.
HandleDataConnection(c, t) ==
    /\ c = NextConn
    /\ c \in ConnIds
    /\ IF GetTunnel(tunnels, t)
       THEN /\ poolExists' = TRUE
            /\ connections' = Append(connections, [connectionId |-> c, inUse |-> FALSE])
            /\ dataSock' = [dataSock EXCEPT ![c] = "open"]
       ELSE /\ dataSock' = [dataSock EXCEPT ![c] = "closed"]
            /\ UNCHANGED <<poolExists, connections>>
    /\ UNCHANGED <<extVars, wsVars, writing>>

\* queueRequest(req, res, tunnelId): the caller waits for a connection.
QueueRequest(h) == [res EXCEPT ![h].by = "queued"]

\* The pooled handleTunnelRequest up to its first await.
PoolHandleTunnelRequest(t) ==
    /\ NextCaller \in Callers
    /\ LET h == NextCaller
           id == FreshId
           i == GetConnection(connections)
       IN  /\ reqTunnel' = [reqTunnel EXCEPT ![h] = t]
           /\ IF t # PoolTunnel \/ ~poolExists
              THEN /\ res' = ResWrite(h, 404, "notfound")
                   /\ UNCHANGED <<pendingResponses, timeout, requestId, connections,
                                  writing>>
              ELSE IF i = 0
              THEN /\ res' = QueueRequest(h)
                   /\ UNCHANGED <<pendingResponses, timeout, requestId, connections, writing>>
              ELSE /\ connections' = [connections EXCEPT ![i].inUse = TRUE]
                   /\ requestId' = [requestId EXCEPT ![h] = id]
                   /\ timeout' = [timeout EXCEPT ![id] = "armed"]
                   /\ pendingResponses' = MapSet(pendingResponses, id,
                          [res |-> h, timeout |-> id,
                           connectionId |-> connections[i].connectionId])
                   /\ writing' = writing \cup {id}
                   /\ res' = [res EXCEPT ![h].conn = connections[i].connectionId]
    /\ UNCHANGED <<extVars, sockState, tunnels, statVars, poolExists, dataSock>>

\* The connection a pending entry was dispatched on.
ConnOf(id) == pendingResponses[id].connectionId

\* handleTunnelRequest after its awaits: writeMessage (and the body write)
\* resolved, or rejected into the catch, which releases the connection and
\* throws APIError(500) for the error middleware to answer. A write resolves
\* only on a socket that is still open.
WriteSettles(id, ok) ==
    /\ id \in writing
    /\ writing' = writing \ {id}
    /\ LET h == CHOOSE k \in Callers : requestId[k] = id
           c == res[h].conn
       IN  IF ok
           THEN /\ dataSock[c] = "open"
                /\ UNCHANGED <<connections, res>>
           ELSE /\ connections' = ReleaseConnection(connections, c)
                /\ res' = ResWrite(h, 500, "dispatchfailed")
    /\ UNCHANGED <<extVars, sockState, tunnels, pendingResponses, timeout, requestId, reqTunnel,
                   statVars, poolExists, dataSock>>

\* messageHandler of handleDataConnection: a response header frame m read on
\* data connection c whose request_id has a pending entry. The entry's
\* Response is written and connection c itself is released. When that Response
\* was already ended, res.setHeader throws for a frame that carries headers: the
\* catch destroys the socket and nothing is released; for a frame without
\* headers res.end changes nothing and the release follows.
DataResponse(c, m) ==
    /\ dataSock[c] = "open"
    /\ m.requestId \in DOMAIN pendingResponses
    /\ LET h == pendingResponses[m.requestId].res
       IN  /\ timeout' = [timeout EXCEPT ![pendingResponses[m.requestId].timeout] =
                                            ClearTimeout(@)]
           /\ pendingResponses' = MapDelete(pendingResponses, m.requestId)
           /\ IF res[h].ended
              THEN /\ res' = [res EXCEPT ![h].writes = @ + 1]
                   /\ IF m.hasHeaders
                      THEN /\ dataSock' = [dataSock EXCEPT ![c] = "destroyed"]
                           /\ UNCHANGED connections
                      ELSE /\ connections' = ReleaseConnection(connections, c)
                           /\ UNCHANGED dataSock
              ELSE /\ res' = [res EXCEPT ![h] =
                          [res[h] EXCEPT !.statusCode = m.statusCode, !.ended = TRUE,
                              !.writes = @ + 1, !.by = "response",
                              !.from = m.requestId, !.via = c]]
                   /\ connections' = ReleaseConnection(connections, c)
                   /\ UNCHANGED dataSock
    /\ UNCHANGED <<extVars, sockState, tunnels, requestId, reqTunnel, statVars, poolExists,
                   writing>>

\* A response header frame whose request_id has no pending entry.
DataResponseIgnored(c) ==
    /\ dataSock[c] = "open"
    /\ \E m \in DataMessages : m.requestId \notin DOMAIN pendingResponses
    /\ UNCHANGED <<extVars, wsVars, poolVars>>

\* socket.on('close') of a pooled data connection: removeConnection, then
\* ensureMinimumPoolSize, which writes EnsureMinimumPoolSize(connections')
\* open_data_connection frames on the control connection and changes nothing in
\* the server. The pending entries are not looked at.
DataSocketClose(c) ==
    /\ dataSock[c] \in {"open", "destroyed"}
    /\ dataSock' = [dataSock EXCEPT ![c] = "closed"]
    /\ connections' = RemoveConnection(connections, c)
    /\ UNCHANGED <<extVars, wsVars, poolExists, writing>>

\* The pooled setTimeout callback: 504, delete the entry, release the connection.
\* On a Response that was already ended res.status(504).json() throws before
\* the delete and the release.
PoolTimeoutFires(id) ==
    /\ timeout[id] = "armed"
    /\ timeout' = [timeout EXCEPT ![id] = "done"]
    /\ IF id \in DOMAIN pendingResponses
       THEN LET h == pendingResponses[id].res
            IN  /\ res' = ResWrite(h, 504, "timeout")
                /\ IF res[h].ended
                   THEN UNCHANGED <<pendingResponses, connections>>
                   ELSE /\ pendingResponses' = MapDelete(pendingResponses, id)
                        /\ connections' = ReleaseConnection(connections, ConnOf(id))
       ELSE UNCHANGED <<res, pendingResponses, connections>>
    /\ UNCHANGED <<extVars, sockState, tunnels, requestId, reqTunnel, statVars, poolExists,
                   dataSock, writing>>

\* The destruction of tunnel t (its control connection closed, its heartbeat
\* timed out, or it was removed): the tunnel leaves the registry, every pooled
\* data connection is torn down with the pool, and every request in flight is
\* failed at once, its timer cancelled. handleTunnelRegistration,
\* closeDataConnections and cleanupPendingResponses, which hold this, are
\* called in the source and defined nowhere in it.
DestroyTunnel(t) ==
    /\ t \in tunnels
    /\ tunnels' = tunnels \ {t}
    /\ sockState' = [sockState EXCEPT ![t] = "closed"]
    /\ stats' = [stats EXCEPT ![t] = NoStats]
    /\ dataSock' = [c \in ConnIds |->
                      IF \E i \in DOMAIN connections : connections[i].connectionId = c
                      THEN "destroyed" ELSE dataSock[c]]
    /\ connections' = << >>
    /\ poolExists' = FALSE
    /\ res' = [h \in Callers |->
                 IF \E id \in DOMAIN pendingResponses : pendingResponses[id].res = h
                 THEN ResWrite(h, 502, "disconnect")[h]
                 ELSE res[h]]
    /\ timeout' = [id \in ReqIds |->
                     IF id \in DOMAIN pendingResponses THEN ClearTimeout(timeout[id])
                     ELSE timeout[id]]
    /\ pendingResponses' = << >>
    /\ UNCHANGED <<extVars, requestId, reqTunnel, sent, writing>>

PoolNext ==
    \/ \E c \in ConnIds, t \in Hostnames : HandleDataConnection(c, t)
    \/ \E t \in Hostnames : PoolHandleTunnelRequest(t)
    \/ \E id \in ReqIds, ok \in BOOLEAN : WriteSettles(id, ok)
    \/ \E c \in ConnIds, m \in DataMessages : DataResponse(c, m)
    \/ \E c \in ConnIds : DataResponseIgnored(c)
    \/ \E c \in ConnIds : DataSocketClose(c)
    \/ \E id \in ReqIds : PoolTimeoutFires(id)

SpecPool == PoolInit /\ [][PoolNext]_vars

\* The pooled server over a run in which tunnels are destroyed as well.
TeardownNext ==
    \/ PoolNext
    \/ \E t \in Hostnames : DestroyTunnel(t)

SpecTeardown == PoolInit /\ [][TeardownNext]_vars

\* ---------------------------------------------------------- message framing
\* The byte values of a payload, and the payloads the peer writes: n bytes b.
\* A payload is the text of a JSON message and never empty.
PayloadBytes == {0, 1}
Payloads == {[i \in 1..n |-> b] : n \in 1..MaxPayload, b \in PayloadBytes}

\* The largest payload length a frame may declare: 16 MiB.
MaxFrameSize == 16777216

\* lengthBuffer.writeUInt32BE(n, 0)
WriteUInt32BE(n) ==
    <<(n \div 16777216) % 256, (n \div 65536) % 256, (n \div 256) % 256, n % 256>>

\* lengthBuffer.readUInt32BE(0)
ReadUInt32BE(b) == b[1] * 16777216 + b[2] * 65536 + b[3] * 256 + b[4]

\* Buffer.concat([lengthBuffer, data])
Frame(data) == WriteUInt32BE(Len(data)) \o data

\* buf.slice(n)
Drop(buf, n) == SubSeq(buf, n + 1, Len(buf))

\* socket.read(n) on a paused stream: how many bytes it returns, 0 for null.
\* read(0) returns null; fewer than n bytes buffered return null while the
\* stream is open and what is left once it has ended.
SocketRead(buf, n, ended) ==
    IF n = 0 THEN 0
    ELSE IF n <= Len(buf) THEN n
    ELSE IF ended THEN Len(buf)
    ELSE 0

\* s is an initial segment of t.
IsPrefix(s, t) == Len(s) <= Len(t) /\ SubSeq(t, 1, Len(s)) = s

\* The bytes of the frames written so far, and how many of them have arrived.
RECURSIVE Stream(_)
Stream(ps) == IF ps = << >> THEN << >> ELSE Frame(Head(ps)) \o Stream(Tail(ps))
Delivered == Len(Stream(written)) - Len(wire)

\* The stream offsets at which a frame ends.
Boundaries == {Len(Stream(SubSeq(written, 1, k))) : k \in 0..Len(written)}

\* writeMessage(socket, data): the prefix and the payload in one socket.write.
WriteMessage(data) ==
    /\ closed = "open"
    /\ ~oversized
    /\ Len(written) < MaxFrames
    /\ written' = Append(written, data)
    /\ wire' = wire \o Frame(data)
    /\ UNCHANGED <<wsVars, poolVars, dnsVars, moreVars, buffer, closed, emit, listener,
                   messageLength, promise, results, fault, oversized, cut>>

\* The peer writes a prefix that declares one byte more than the maximum, the
\* last thing it writes.
WriteOversized ==
    /\ closed = "open"
    /\ ~oversized
    /\ oversized' = TRUE
    /\ wire' = wire \o WriteUInt32BE(MaxFrameSize + 1)
    /\ UNCHANGED <<wsVars, poolVars, dnsVars, moreVars, written, buffer, closed, emit, listener,
                   messageLength, promise, results, fault, cut>>

\* The next k bytes arrive as one chunk: the stream buffers them and schedules
\* 'readable' for the listener that waits.
Deliver(k) ==
    /\ closed = "open"
    /\ k \in 1..Len(wire)
    /\ buffer' = buffer \o SubSeq(wire, 1, k)
    /\ wire' = Drop(wire, k)
    /\ emit' = (listener # "none")
    /\ UNCHANGED <<wsVars, poolVars, dnsVars, moreVars, written, closed, listener, messageLength,
                   promise, results, fault, oversized, cut>>

\* The connection closes: the bytes still under way are lost. The end of the
\* stream schedules 'readable'; a destroyed socket emits it no more.
Close(how) ==
    /\ closed = "open"
    /\ closed' = how
    /\ wire' = << >>
    /\ cut' = (promise = "pending" /\ ~oversized /\ Delivered \notin Boundaries)
    /\ emit' = IF how = "ended" THEN listener # "none" ELSE FALSE
    /\ UNCHANGED <<wsVars, poolVars, dnsVars, moreVars, written, buffer, listener, messageLength,
                   promise, results, fault, oversized>>

\* The application calls readMessage: socket.once('readable', ...). Attaching
\* the first 'readable' listener schedules the event when bytes are buffered.
ReadMessage ==
    /\ closed = "open"
    /\ promise # "pending"
    /\ ~fault
    /\ promise' = "pending"
    /\ listener' = "prefix"
    /\ emit' = (Len(buffer) > 0)
    /\ UNCHANGED <<wsVars, poolVars, dnsVars, moreVars, written, wire, buffer, closed,
                   messageLength, results, fault, oversized, cut>>

\* resolve(messageBuffer): the first n bytes of buf.
Resolve(buf, n) ==
    /\ results' = Append(results, SubSeq(buf, 1, n))
    /\ buffer' = Drop(buf, n)
    /\ promise' = "resolved"
    /\ listener' = "none"

\* The callback of readMessage's own once('readable'): read(4), readUInt32BE,
\* read(messageLength).
ReadablePrefix ==
    /\ emit
    /\ listener = "prefix"
    /\ emit' = FALSE
    /\ LET ended == closed = "ended"
           n4 == SocketRead(buffer, 4, ended)
           rest == Drop(buffer, 4)
           len == ReadUInt32BE(buffer)
       IN  IF n4 = 0
           THEN /\ listener' = "retryPrefix"
                /\ UNCHANGED <<buffer, messageLength, promise, results, fault>>
           ELSE IF n4 < 4
           THEN /\ fault' = TRUE
                /\ listener' = "none"
                /\ buffer' = << >>
                /\ UNCHANGED <<messageLength, promise, results>>
           ELSE /\ messageLength' = len
                /\ fault' = fault
                /\ IF SocketRead(rest, len, ended) = 0
                   THEN /\ listener' = "body"
                        /\ buffer' = rest
                        /\ UNCHANGED <<promise, results>>
                   ELSE Resolve(rest, SocketRead(rest, len, ended))
    /\ UNCHANGED <<wsVars, poolVars, dnsVars, moreVars, written, wire, closed, oversized, cut>>

\* The callback that waits for the body: read(messageLength) once more.
ReadableBody ==
    /\ emit
    /\ listener = "body"
    /\ emit' = FALSE
    /\ LET n == SocketRead(buffer, messageLength, closed = "ended")
       IN  IF n = 0
           THEN /\ listener' = "retryBody"
                /\ UNCHANGED <<buffer, promise, results>>
           ELSE Resolve(buffer, n)
    /\ UNCHANGED <<wsVars, poolVars, dnsVars, moreVars, written, wire, closed, messageLength,
                   fault, oversized, cut>>

\* The callbacks () => readMessage(socket).then(resolve).catch(reject): they
\* read nothing and attach readMessage's own listener for a later event.
ReadableRetry ==
    /\ emit
    /\ listener \in {"retryPrefix", "retryBody"}
    /\ emit' = FALSE
    /\ listener' = "prefix"
    /\ UNCHANGED <<wsVars, poolVars, dnsVars, moreVars, written, wire, buffer, closed,
                   messageLength, promise, results, fault, oversized, cut>>

FrameNext ==
    \/ \E data \in Payloads : WriteMessage(data)
    \/ WriteOversized
    \/ \E k \in 1..(MaxFrames * (4 + MaxPayload) + 4) : Deliver(k)
    \/ \E how \in {"ended", "destroyed"} : Close(how)
    \/ ReadMessage
    \/ ReadablePrefix
    \/ ReadableBody
    \/ ReadableRetry

SpecFrame == Init /\ [][FrameNext]_vars

\* ------------------------------------------------------- pool replenishment
\* The size of one tunnel's pool: ConnectionPool's getConnection and close
\* handler with the periodic monitorConnections, and the client that opens one
\* data connection per open_data_connection frame.

\* The tunnel has a pool once its first data connection was added.
HasPool == initialLeft < InitialConnections

\* A pool of total connections of which the first inUse are in use.
PoolOf(total, inUse) ==
    [i \in 1..total |-> [connectionId |-> i, inUse |-> i <= inUse]]

\* monitorConnections, second loop: 3 - availableCount requests when fewer
\* than 3 connections are available.
MonitorRequests(conns) ==
    LET availableCount == Cardinality({i \in DOMAIN conns : ~conns[i].inUse})
    IN  IF availableCount < 3 THEN 3 - availableCount ELSE 0

\* The client opens one of its initial data connections: handleDataConnection
\* adds it to the pool.
ConnectInitial ==
    /\ initialLeft > 0
    /\ registered < MaxPool
    /\ initialLeft' = initialLeft - 1
    /\ registered' = registered + 1
    /\ UNCHANGED <<notRepl, busy, outstanding>>

\* The client answers an open_data_connection frame with a data connection.
ConnectRequested ==
    /\ outstanding > 0
    /\ registered < MaxPool
    /\ outstanding' = outstanding - 1
    /\ registered' = registered + 1
    /\ UNCHANGED <<notRepl, busy, initialLeft>>

\* getConnection(): the first available connection is marked in use; with
\* none available one more is requested unless the pool is at its maximum.
Acquire ==
    /\ HasPool
    /\ IF GetConnection(PoolOf(registered, busy)) # 0
       THEN /\ busy' = busy + 1
            /\ UNCHANGED outstanding
       ELSE /\ outstanding' = IF registered < maxPoolSize
                            THEN RequestNewConnection(outstanding)
                            ELSE outstanding
            /\ outstanding' <= MaxOutstanding
            /\ UNCHANGED busy
    /\ UNCHANGED <<notRepl, registered, initialLeft>>

\* releaseConnection(connectionId) of a connection in use.
Release ==
    /\ busy > 0
    /\ busy' = busy - 1
    /\ UNCHANGED <<notRepl, registered, outstanding, initialLeft>>

\* socket.on('close') of a pooled connection, in use or not: removeConnection,
\* then ensureMinimumPoolSize.
PoolClose(wasInUse) ==
    /\ IF wasInUse THEN busy > 0 ELSE registered > busy
    /\ registered' = registered - 1
    /\ busy' = IF wasInUse THEN busy - 1 ELSE busy
    /\ outstanding' = outstanding +
          EnsureMinimumPoolSize(PoolOf(registered', busy')) * RequestNewConnection(0)
    /\ outstanding' <= MaxOutstanding
    /\ UNCHANGED <<notRepl, initialLeft>>

\* monitorConnections, every 30 seconds: the pool is topped up.
Monitor ==
    /\ HasPool
    /\ outstanding' = outstanding +
          MonitorRequests(PoolOf(registered, busy)) * RequestNewConnection(0)
    /\ outstanding' # outstanding
    /\ outstanding' <= MaxOutstanding
    /\ UNCHANGED <<notRepl, registered, busy, initialLeft>>

ReplNext ==
    \/ ConnectInitial
    \/ ConnectRequested
    \/ Acquire
    \/ Release
    \/ \E wasInUse \in BOOLEAN : PoolClose(wasInUse)
    \/ Monitor

SpecReplenish == PoolInit /\ [][ReplNext]_vars

\* --------------------------------------------------------- heartbeat sweep
\* monitorConnections' first loop over the control connections, with the
\* registration and the keep_alive handler that set lastHeartbeat.

\* setInterval(() => this.monitorConnections(), 30000), in milliseconds.
MonitorInterval == 30000
\* now - conn.lastHeartbeat > 60000
HeartbeatTimeout == 60000

\* A sweep that also takes a heartbeat of exactly the timeout for late.
StaleAtTimeout(now, last) == now - last >= HeartbeatTimeout
\* now - conn.lastHeartbeat > 60000
Stale(now, last) == now - last > HeartbeatTimeout

\* A request for the tunnel's hostname is dispatched on a data connection:
\* getAvailableDataConnection finds one in the tunnel's pool.
Routable(t) == dataConnectionPools[t]

\* Thirty seconds pass.
Tick ==
    /\ clock < MaxTicks * MonitorInterval
    /\ clock' = clock + MonitorInterval
    /\ UNCHANGED <<notHb, controlConnections, lastHeartbeat, controlSocket,
                   dataConnectionPools>>

\* register_tunnel on a new control connection: the ControlConnection is
\* stored with lastHeartbeat: Date.now().
RegisterControl(t) ==
    /\ controlSocket[t] = "none"
    /\ controlConnections' = controlConnections \cup {t}
    /\ controlSocket' = [controlSocket EXCEPT ![t] = "open"]
    /\ lastHeartbeat' = [lastHeartbeat EXCEPT ![t] = clock]
    /\ UNCHANGED <<notHb, clock, dataConnectionPools>>

\* The client of a registered tunnel opens a data connection.
OpenData(t) ==
    /\ t \in controlConnections
    /\ ~dataConnectionPools[t]
    /\ dataConnectionPools' = [dataConnectionPools EXCEPT ![t] = TRUE]
    /\ UNCHANGED <<notHb, clock, controlConnections, lastHeartbeat, controlSocket>>

\* keep_alive on the control connection of t: lastHeartbeat = Date.now().
KeepAlive(t) ==
    /\ t \in controlConnections
    /\ lastHeartbeat[t] # clock
    /\ lastHeartbeat' = [lastHeartbeat EXCEPT ![t] = clock]
    /\ UNCHANGED <<notHb, clock, controlConnections, controlSocket, dataConnectionPools>>

\* closeDataConnections(tunnelId) for the tunnels in gone: their pooled data
\* connections are torn down. The source calls it and does not define it.
CloseDataConnections(pools, gone) ==
    [t \in Sockets |-> IF t \in gone THEN FALSE ELSE pools[t]]

\* The control connections monitorConnections finds timed out.
TimedOut == {t \in controlConnections : Stale(clock, lastHeartbeat[t])}

\* monitorConnections, first loop: every timed-out control connection is
\* closed with 1001 and deleted, its data connections are closed.
MonitorControl ==
    /\ TimedOut # {}
    /\ controlConnections' = controlConnections \ TimedOut
    /\ controlSocket' = [t \in Sockets |->
                            IF t \in TimedOut THEN "closed" ELSE controlSocket[t]]
    /\ dataConnectionPools' = CloseDataConnections(dataConnectionPools, TimedOut)
    /\ UNCHANGED <<notHb, clock, lastHeartbeat>>

HbNext ==
    \/ Tick
    \/ \E t \in Sockets : RegisterControl(t)
    \/ \E t \in Sockets : OpenData(t)
    \/ \E t \in Sockets : KeepAlive(t)
    \/ MonitorControl

SpecHeartbeat == Init /\ [][HbNext]_vars

\* ------------------------------------------------------------ tunnel client
\* bin/connect.ts: the handlers of startTunnel and handleTunnelRequest.

\* The statuses of the local server; validateStatus accepts every one.
LocalStatuses == {200, 500}
\* The outcomes of the axios call: a status, or LocalFailed when it throws.
LocalFailed == 0
LocalOutcomes == LocalStatuses \cup {LocalFailed}

\* A handleTunnelRequest that answers a failed local call with 500.
ClientHandleTunnelRequestAs500(outcome) == IF outcome = LocalFailed THEN 500 ELSE outcome
\* handleTunnelRequest(request, localPort): the statusCode of the response it
\* returns, response.status or 502 from the catch block.
ClientHandleTunnelRequest(outcome) == IF outcome = LocalFailed THEN 502 ELSE outcome

\* ws.on("open")
ClientOpen ==
    /\ process = "running"
    /\ ws = "connecting"
    /\ ws' = "open"
    /\ UNCHANGED <<notClient, process, localCall, responses>>

\* ws.on("message") with a request: the call to the local server starts.
ClientRequest(id) ==
    /\ process = "running"
    /\ ws = "open"
    /\ localCall[id].phase = "none"
    /\ localCall' = [localCall EXCEPT ![id].phase = "pending"]
    /\ UNCHANGED <<notClient, ws, process, responses>>

\* The rest of ws.on("message") once the local call has settled:
\* ws.send(JSON.stringify(response)); a send on a socket that is not open
\* is caught and logged.
ClientRespond(id, outcome) ==
    /\ process = "running"
    /\ localCall[id].phase = "pending"
    /\ localCall' = [localCall EXCEPT ![id] = [phase |-> "settled", outcome |-> outcome]]
    /\ responses' = IF ws = "open"
                    THEN [responses EXCEPT
                            ![id] = Append(@, ClientHandleTunnelRequest(outcome))]
                    ELSE responses
    /\ UNCHANGED <<notClient, ws, process>>

\* The closing handshake of the WebSocket starts.
ClientClosing ==
    /\ process = "running"
    /\ ws = "open"
    /\ ws' = "closing"
    /\ UNCHANGED <<notClient, process, localCall, responses>>

\* ws.on("close"): process.exit(0).
ClientClose ==
    /\ process = "running"
    /\ ws \in {"open", "closing"}
    /\ ws' = "closed"
    /\ process' = "exit0"
    /\ UNCHANGED <<notClient, localCall, responses>>

\* ws.on("error"): process.exit(1).
ClientError ==
    /\ process = "running"
    /\ ws # "closed"
    /\ ws' = "closed"
    /\ process' = "exit1"
    /\ UNCHANGED <<notClient, localCall, responses>>

ClientNext ==
    \/ ClientOpen
    \/ \E id \in ReqIds : ClientRequest(id)
    \/ \E id \in ReqIds, outcome \in LocalOutcomes : ClientRespond(id, outcome)
    \/ ClientClosing
    \/ ClientClose
    \/ ClientError

SpecClient == Init /\ [][ClientNext]_vars

\* -------------------------------------------------------------- rate limits
\* The requests of one registered tunnel: the rate limiter middleware of
\* getRateLimiter, then the allowance check of handleTunnelRequest with
\* incrementRequestCount. A forwarded request is answered 200 by the client.

\* getRateLimiter: max: 100
LimiterMax == 100

\* tunnel.stats.rateLimitRemaining <= 0
AllowanceUsedUp(remaining) == remaining <= 0

\* Date.now() > tunnel.stats.rateLimitReset
ResetPassed == resetIn < 0

\* The clock moves on by one step between two requests.
RateTick ==
    /\ lastAnswer # "passed"
    /\ resetIn >= 0 \/ limiterIn > 0
    /\ resetIn' = IF resetIn >= 0 THEN resetIn - 1 ELSE resetIn
    /\ limiterIn' = IF limiterIn > 0 THEN limiterIn - 1 ELSE 0
    /\ UNCHANGED <<notRate, hits, rateLimitRemaining, forwarded, lastAnswer, counted>>

\* The rate limiter middleware on a request for the tunnel. Its store starts a
\* window of windowMs for the key at the first hit after the last window's
\* resetTime; the request is counted and passed on, or answered 429 above max.
\* skipFailedRequests takes a request answered 429 out of the count again.
RateLimiter ==
    /\ lastAnswer # "passed"
    /\ LET fresh == limiterIn = 0
           totalHits == IF fresh THEN 1 ELSE hits + 1
       IN /\ limiterIn' = IF fresh THEN WindowTicks ELSE limiterIn
          /\ IF totalHits > LimiterMax
             THEN /\ lastAnswer' = "throttled"
                  /\ hits' = totalHits - 1
             ELSE /\ lastAnswer' = "passed"
                  /\ hits' = totalHits
    /\ counted' = 0
    /\ UNCHANGED <<notRate, rateLimitRemaining, resetIn, forwarded>>

\* A handler that counts the request before it looks at the allowance.
HandledStatsCountFirst(st, passed) == IncrementRequestCount(st, passed)
\* The stats handleTunnelRequest leaves: untouched when it answers 429, else
\* what incrementRequestCount makes of them.
HandledStats(st, passed) ==
    IF AllowanceUsedUp(st.rateLimitRemaining) THEN st
    ELSE IncrementRequestCount(st, passed)

\* handleTunnelRequest on the request the middleware passed on: 429 when the
\* allowance is used up, else incrementRequestCount and the request is sent.
\* forwarded counts the requests sent since rateLimitReset was last set;
\* requestCount is followed by what the request adds to it.
RateHandle ==
    /\ lastAnswer = "passed"
    /\ LET before == [requestCount |-> 0, rateLimitRemaining |-> rateLimitRemaining]
           after == HandledStats(before, ResetPassed)
       IN  /\ rateLimitRemaining' = after.rateLimitRemaining
           /\ counted' = after.requestCount - before.requestCount
    /\ IF AllowanceUsedUp(rateLimitRemaining)
       THEN /\ lastAnswer' = "limited"
            /\ hits' = hits - 1
            /\ UNCHANGED <<resetIn, forwarded>>
       ELSE /\ lastAnswer' = "forwarded"
            /\ resetIn' = IF ResetPassed THEN WindowTicks ELSE resetIn
            /\ forwarded' = IF ResetPassed THEN 1 ELSE forwarded + 1
            /\ UNCHANGED hits
    /\ UNCHANGED <<notRate, limiterIn>>

\* A request whose URL names no registered tunnel: the middleware counts it
\* under another key, and handleTunnelRequest answers 404 before it reaches
\* any tunnel's stats.
RateNotFound ==
    /\ lastAnswer # "passed"
    /\ lastAnswer' = "notfound"
    /\ counted' = 0
    /\ UNCHANGED <<notRate, hits, limiterIn, rateLimitRemaining, resetIn, forwarded>>

RateNext ==
    \/ RateTick
    \/ RateLimiter
    \/ RateHandle
    \/ RateNotFound

SpecRate == Init /\ [][RateNext]_vars

\* ---------------------------------------------------------- the planned client
\* src/tls-based-implementation-changes.md, connect.ts: startTunnel with its
\* reconnection after a failed or closed control connection.

\* Math.min(1000 * Math.pow(2, reconnectAttempts), 30000)
BackoffBase == 1000
BackoffCap == 30000
BackoffTime(attempts) == Min(BackoffBase * 2^attempts, BackoffCap)

\* let reconnectAttempts = 0 at the top of startTunnel
StartTunnelAttempts == 0

\* What the catch block and the 'close' handler do alike: compute backoffTime,
\* count the attempt, setTimeout(() => startTunnel(options), backoffTime).
ScheduleReconnect(cause) ==
    /\ Len(backoffs) < MaxFailures
    /\ backoffs' = Append(backoffs, [backoffTime |-> BackoffTime(reconnectAttempts),
                                     cause |-> cause])
    /\ reconnectAttempts' = reconnectAttempts + 1
    /\ control' = "waiting"

\* connectControl rejects (or registration throws): the catch block.
ConnectFails ==
    /\ control = "connecting"
    /\ ScheduleReconnect("connect")
    /\ UNCHANGED <<notPlan, live, errored, scheduled>>

\* connectControl resolves and the 'close' handler is attached.
ConnectSucceeds ==
    /\ control = "connecting"
    /\ control' = "open"
    /\ UNCHANGED <<notPlan, reconnectAttempts, backoffs, live, errored, scheduled>>

\* controlSocket.on('close')
ControlClosed ==
    /\ control = "open"
    /\ ScheduleReconnect("close")
    /\ UNCHANGED <<notPlan, live, errored, scheduled>>

\* The setTimeout callback: startTunnel(options), a new invocation with its
\* own local variables.
ReconnectTimer ==
    /\ control = "waiting"
    /\ control' = "connecting"
    /\ reconnectAttempts' = StartTunnelAttempts
    /\ UNCHANGED <<notPlan, backoffs, live, errored, scheduled>>

ReconnectNext ==
    \/ ConnectFails
    \/ ConnectSucceeds
    \/ ControlClosed
    \/ ReconnectTimer

SpecReconnect == Init /\ [][ReconnectNext]_vars

\* openDataConnection of the same client: every data socket has an 'error' and
\* a 'close' handler, and each sets a timer that opens a replacement. A socket
\* that fails emits 'error' and then 'close'.
Held == live + errored + scheduled

\* tunnel_registered: for (let i = 0; i < 3; i++) await openDataConnection(tunnelId)
OpenInitial ==
    /\ Held = 0
    /\ live' = InitialConnections
    /\ UNCHANGED <<notPlan, control, reconnectAttempts, backoffs, errored, scheduled>>

\* socket.on('error'): setTimeout(() => openDataConnection(tunnelId), 1000)
ClientDataError ==
    /\ live > 0
    /\ Held < MaxHeld
    /\ live' = live - 1
    /\ errored' = errored + 1
    /\ scheduled' = scheduled + 1
    /\ UNCHANGED <<notPlan, control, reconnectAttempts, backoffs>>

\* socket.on('close') of a socket that emitted 'error' before: the same timer
\* once more.
ClientDataCloseAfterError ==
    /\ errored > 0
    /\ errored' = errored - 1
    /\ scheduled' = scheduled + 1
    /\ UNCHANGED <<notPlan, control, reconnectAttempts, backoffs, live>>

\* socket.on('close') of a socket the peer ended or the client destroyed.
ClientDataClose ==
    /\ live > 0
    /\ live' = live - 1
    /\ scheduled' = scheduled + 1
    /\ UNCHANGED <<notPlan, control, reconnectAttempts, backoffs, errored>>

\* The timer's callback: openDataConnection(tunnelId), one new socket.
OpenReplacement ==
    /\ scheduled > 0
    /\ scheduled' = scheduled - 1
    /\ live' = live + 1
    /\ UNCHANGED <<notPlan, control, reconnectAttempts, backoffs, errored>>

DataConnNext ==
    \/ OpenInitial
    \/ ClientDataError
    \/ ClientDataCloseAfterError
    \/ ClientDataClose
    \/ OpenReplacement

SpecDataConn == Init /\ [][DataConnNext]_vars

\* --------------------------------------------------- claims on the WebSocket server

\* The callers whose request was dispatched: entry stored and frame sent.
Dispatched(h) == requestId[h] # NoId
\* The caller of a pending entry.
CallerOf(id) == pendingResponses[id].res

\* C1: every dispatched request is completed exactly once, by its response,
\* its timeout or a disconnect: its HTTP response is eventually written, and
\* never written twice.
C1_ExactlyOneCompletion ==
    \A h \in Callers :
        /\ [](res[h].writes <= 1)
        /\ [](Dispatched(h) => <>(res[h].writes = 1 /\ requestId[h] \notin DOMAIN pendingResponses))

\* C2: a caller answered by a tunnel response got the status, headers and body
\* of the frame whose requestId is the id generated for that caller's request.
C2_ResponseMatchesCaller ==
    \A h \in Callers :
        res[h].by = "response" =>
            /\ Dispatched(h)
            /\ res[h].from = requestId[h]
            /\ res[h].statusCode \in StatusCodes

\* C2's case: a later request is answered by its response while an earlier one
\* is still pending (responses out of dispatch order).
C2_Witness ==
    \E h1, h2 \in Callers :
        /\ h1 < h2
        /\ Dispatched(h1) /\ requestId[h1] \in DOMAIN pendingResponses
        /\ res[h2].by = "response"

\* C3: the close of a tunnel's socket fails every request pending on that
\* tunnel in the close handler itself: the entry is gone and the caller has the
\* tunnel-disconnected 504 when the handler returns.
C3_CloseFailsPending ==
    [][\A s \in Sockets :
         (HasHandlers(s) /\ sockState'[s] = "closed") =>
            \A id \in DOMAIN pendingResponses :
                reqTunnel[CallerOf(id)] = s =>
                    /\ id \notin DOMAIN pendingResponses'
                    /\ res'[CallerOf(id)].by = "disconnect"
                    /\ res'[CallerOf(id)].statusCode = 504
                    /\ res'[CallerOf(id)].ended]_vars

\* C3's case: two requests of one tunnel failed by its close while their
\* deadline timers were still armed.
C3_Witness ==
    \E h1, h2 \in Callers :
        /\ h1 # h2
        /\ \A h \in {h1, h2} :
              /\ res[h].by = "disconnect"
              /\ res[h].via = reqTunnel[h]
              /\ timeout[requestId[h]] = "armed"
        /\ reqTunnel[h1] = reqTunnel[h2]

\* C4: a response frame completes a request only when it arrives on the socket
\* of the tunnel the request was dispatched to.
C4_ResponseFromOwnTunnel ==
    \A h \in Callers : res[h].by = "response" => res[h].via = reqTunnel[h]

\* C5: the close of one tunnel's socket fails only the requests dispatched to
\* that tunnel.
C5_CloseFailsOnlyOwn ==
    \A h \in Callers : res[h].by = "disconnect" => res[h].via = reqTunnel[h]

\* ------------------------------------------------------ claims on the pooled server

InUseCount == Cardinality({i \in DOMAIN connections : connections[i].inUse})
\* Connection c is in the pool and marked in use.
MarkedInUse(c) ==
    \E i \in DOMAIN connections : connections[i].connectionId = c /\ connections[i].inUse
\* Connection c is in the pool and not marked in use.
MarkedAvailable(c) ==
    \E i \in DOMAIN connections : connections[i].connectionId = c /\ ~connections[i].inUse
\* The connections handed out by the step: those of the entries it stored.
NewlyPending == {id \in ReqIds : id \in DOMAIN pendingResponses' /\ id \notin DOMAIN pendingResponses}

\* C6: over all acquires, releases, adds and removes the in-use connections
\* never outnumber the registered ones, and an acquire only hands out a
\* registered connection that was not marked in use.
C6_AcquireOnlyAvailable ==
    /\ InUseCount <= Len(connections)
    /\ [][/\ InUseCount' <= Len(connections')
          /\ \A id \in NewlyPending :
                /\ MarkedAvailable(pendingResponses'[id].connectionId)
                /\ ~MarkedInUse(pendingResponses'[id].connectionId)]_vars

\* C6's case: two requests hold two different connections, both marked in
\* use: the second acquire passed over the connection the first one held.
C6_Witness ==
    \E id1, id2 \in DOMAIN pendingResponses :
        /\ id1 # id2
        /\ ConnOf(id1) # ConnOf(id2)
        /\ MarkedInUse(ConnOf(id1)) /\ MarkedInUse(ConnOf(id2))

\* C7: at most one pending request is bound to a data connection, and a pooled
\* connection with a pending request bound to it is not available.
C7_OneRequestPerConnection ==
    /\ \A id1, id2 \in DOMAIN pendingResponses : id1 # id2 => ConnOf(id1) # ConnOf(id2)
    /\ \A id \in DOMAIN pendingResponses : ~MarkedAvailable(ConnOf(id))

\* The timeout callback of id runs while its request is pending and unanswered.
DeadlineExpires(id) ==
    /\ PoolTimeoutFires(id)
    /\ id \in DOMAIN pendingResponses
    /\ ~res[pendingResponses[id].res].ended

C9_FailedDispatchIsCompleted ==
    \A h \in Callers :
        res[h].by = "dispatchfailed" =>
            /\ res[h].writes = 1
            /\ requestId[h] \notin DOMAIN pendingResponses
            /\ timeout[requestId[h]] # "armed"

\* C10: once a data connection has closed, no request dispatched on it is
\* still pending: the close failed it.
C10_CloseFailsBoundRequest ==
    \A id \in DOMAIN pendingResponses : dataSock[ConnOf(id)] # "closed"

\* ----------------------------------------------------- claims on the registry

C13_RemoveTunnelIdempotent ==
    [][\A t \in Sockets :
         /\ (RemoveTunnel(t) /\ RemoveTunnelReturns(tunnels, t)) =>
               /\ t \notin tunnels'
               /\ ~RemoveTunnelReturns(tunnels', t)
               /\ RemoveTunnelRegistry(tunnels', t) = tunnels'
         /\ (RemoveTunnel(t) /\ ~RemoveTunnelReturns(tunnels, t)) =>
               /\ tunnels' = tunnels
               /\ sockState' = sockState
         /\ (sockState[t] \in {"closing", "closed"} /\ ~RemoveTunnelReturns(tunnels, t)) =>
               ~RemoveTunnelReturns(tunnels', t)]_vars

\* C13's case: removeTunnel removed a tunnel (its socket is closing, which only
\* removeTunnel brings about) while another tunnel stays registered.
C13_Witness ==
    \E t, u \in Sockets :
        /\ sockState[t] = "closing" /\ ~RemoveTunnelReturns(tunnels, t)
        /\ RemoveTunnelReturns(tunnels, u)

\* C16: a request that names no registered tunnel is answered 404 and nothing
\* else changes: no pending entry, no timer, no stats, no frame sent, and no
\* other caller's response.
C16_NotFoundHasNoEffect ==
    [][\A t \in Sockets :
         (HandleTunnelRequest(t) /\ t \notin tunnels) =>
            /\ res'[NextCaller].statusCode = 404
            /\ res'[NextCaller].ended
            /\ res'[NextCaller].writes = 1
            /\ \A h \in Callers \ {NextCaller} : res'[h] = res[h]
            /\ UNCHANGED <<pendingResponses, timeout, requestId, stats, sent, tunnels,
                           sockState>>]_vars

\* C16's case: a caller was answered 404 while another caller's request is
\* pending on a registered tunnel that has counted and sent it.
C16_Witness ==
    \E h1, h2 \in Callers :
        /\ h1 < h2
        /\ Dispatched(h1) /\ requestId[h1] \in DOMAIN pendingResponses
        /\ reqTunnel[h1] \in tunnels
        /\ stats[reqTunnel[h1]].requestCount = 1
        /\ sent[reqTunnel[h1]] = {requestId[h1]}
        /\ res[h2].by = "notfound" /\ res[h2].statusCode = 404 /\ ~Dispatched(h2)

SubdomainsUnique ==
    /\ \A name \in DOMAIN subdomainToTunnelMap :
          /\ subdomainToTunnelMap[name] \in tunnels
          /\ tunnelSubdomain[subdomainToTunnelMap[name]] = name
    /\ \A t \in tunnels :
          /\ tunnelSubdomain[t] \in DOMAIN subdomainToTunnelMap
          /\ subdomainToTunnelMap[tunnelSubdomain[t]] = t
    /\ \A t, u \in tunnels : t # u => tunnelSubdomain[t] # tunnelSubdomain[u]

Quiescent == wire = << >> /\ ~emit /\ promise = "pending"

\* C18: on an open connection that carries writeMessage frames only, the payloads
\* readMessage returns are the payloads written, in order, whatever the chunks
\* the bytes arrive in: never another payload, and all of them once every byte
\* has arrived and the reader waits for more.
C18_RoundTrip ==
    (closed = "open" /\ ~oversized) =>
        /\ IsPrefix(results, written)
        /\ Quiescent => results = written

\* C19: once the connection has closed inside a frame under a readMessage call
\* and every event it raised has run, that call is rejected.
C19_CloseFailsRead == (cut /\ ~emit) => promise = "rejected"

\* C20: readMessage rejects a declared length above the maximum and does not
\* wait for the payload.
C20_OversizedRejected ==
    messageLength > MaxFrameSize => (promise = "rejected" /\ listener = "none")

\* ------------------------------------------------ claims on pool replenishment

\* C21: with three connections registered and two of them in use, a step that
\* requests connections leaves exactly two requests outstanding.
C21_ExactlyTwoRequests ==
    [][(/\ registered = minPoolSize
        /\ busy = 2
        /\ registered' = registered
        /\ busy' = busy
        /\ outstanding' # outstanding) => outstanding' = 2]_vars

\* C22: the pool never holds more connections than its maximum size.
C22_PoolWithinMaximum == registered <= maxPoolSize

\* ------------------------------------------------ claims on the heartbeat sweep

C24_OneResponsePerRequest ==
    /\ \A id \in ReqIds : Len(responses[id]) <= 1
    /\ [][\A id \in ReqIds, outcome \in LocalOutcomes :
            (ClientRespond(id, outcome) /\ ws = "open") =>
                /\ responses'[id] = <<IF outcome = LocalFailed THEN 502 ELSE outcome>>
                /\ \A other \in ReqIds \ {id} : responses'[other] = responses[other]
                /\ ws' = "open"
                /\ process' = "running"]_vars

\* C24's case: one request was answered with the local status and another,
\* whose local call failed, with 502, on a connection that is still open.
C24_Witness ==
    /\ ws = "open"
    /\ process = "running"
    /\ \E id, other \in ReqIds :
          /\ localCall[id] = [phase |-> "settled", outcome |-> LocalFailed]
          /\ responses[id] = <<502>>
          /\ localCall[other] = [phase |-> "settled", outcome |-> 200]
          /\ responses[other] = <<200>>

\* C25: the client process is running after its connection has closed.
C25_ClientSurvivesClose == ws = "closed" => process = "running"

\* ------------------------------------------------------ claims on rate limits

\* C26: a request that reaches handleTunnelRequest when the allowance is used up
\* and the reset time has passed is forwarded.
C26_AcceptedAfterReset ==
    [][(RateHandle /\ rateLimitRemaining = 0 /\ ResetPassed) =>
            lastAnswer' = "forwarded"]_vars

\* C27: no more than 100 requests are forwarded between two settings of the
\* reset time.
C27_AtMostHundredPerWindow == forwarded <= DefaultRateLimit

\* ------------------------------------------------ claims on the administrative close

\* C28: after removeTunnel(t) returned true the tunnel is not routable, and no
\* request that was pending on it is left to its deadline: none of them is
\* answered by its 30-second timer.
C28_AdminCloseFailsPending ==
    [][/\ \A t \in Sockets :
            (RemoveTunnel(t) /\ RemoveTunnelReturns(tunnels, t)) => ~GetTunnel(tunnels', t)
       /\ \A id \in DOMAIN pendingResponses :
            (TimeoutFires(id) /\ res'[CallerOf(id)].by = "timeout") =>
                sockState[reqTunnel[CallerOf(id)]] # "closing"]_vars

\* ------------------------------------------------ claims on authentication

\* C29: a first frame that carries no auth token registers no tunnel: the
\* attempt is rejected and the registry is unchanged.
C29_NoTunnelWithoutToken ==
    [][\A s \in Sockets, m \in FirstMessages :
         (FirstMessage(s, m) /\ ~CarriesToken(m)) =>
            /\ tunnels' = tunnels
            /\ sockState'[s] = "rejected"]_vars

\* ------------------------------------------------ claims on data connection closure

\* The entries of the pool other than connection c, in the pool's order.
OtherEntries(c) == SelectSeq(connections, LAMBDA e : e.connectionId # c)

\* C30: the close of a data connection removes that connection's entry from
\* the pool and nothing else: the tunnel stays registered, its control
\* connection stays open, and the other entries stay in the pool, in order,
\* each with its in-use state.
C30_DataCloseIsLocal ==
    [][\A c \in ConnIds :
         DataSocketClose(c) =>
            /\ connections' = OtherEntries(c)
            /\ tunnels' = tunnels
            /\ sockState' = sockState
            /\ poolExists' = poolExists
            /\ \A d \in ConnIds \ {c} : dataSock'[d] = dataSock[d]]_vars

\* C30's case: a pooled connection that carried a request has closed, while
\* another connection is in the pool and in use and the tunnel is registered
\* with its control connection open.
C30_Witness ==
    \E id \in DOMAIN pendingResponses, d \in ConnIds :
        /\ dataSock[ConnOf(id)] = "closed"
        /\ d # ConnOf(id)
        /\ MarkedInUse(d)
        /\ GetTunnel(tunnels, PoolTunnel)
        /\ ControlOpen

\* ------------------------------------------------ claims on later messages

\* C31: a socket registers at most one tunnel. A socket whose first frame has
\* arrived gets no tunnel afterwards, the tunnel of a registered socket is not
\* replaced by a new one (a new tunnel has the stats of createTunnel), and a
\* later frame is handled by the response handler, which leaves the registry
\* and the stats alone.
C31_OneTunnelPerSocket ==
    [][\A s \in Sockets :
         /\ (sockState[s] # "connected" /\ s \notin tunnels) => s \notin tunnels'
         /\ (s \in tunnels /\ stats[s] # NewStats /\ s \in tunnels') => stats'[s] # NewStats
         /\ \A m \in TunnelMessages :
               TunnelMessage(s, m) => (tunnels' = tunnels /\ stats' = stats)]_vars

\* C31's case: a registered socket has sent a later frame, which completed a
\* request as its response, and its tunnel is the one registered first.
C31_Witness ==
    \E s \in Sockets, h \in Callers :
        /\ s \in tunnels
        /\ res[h].by = "response" /\ res[h].via = s
        /\ stats[s].requestCount >= 1

\* ------------------------------------------------ claims on the planned client

\* C32: when an attempt started by a reconnection fails to connect, the delay
\* before the next attempt is twice the delay before this one, or the cap of
\* 30 seconds once twice the delay exceeds it.
C32_BackoffDoubles ==
    \A i \in 1..(Len(backoffs) - 1) :
        backoffs[i + 1].cause = "connect" =>
            backoffs[i + 1].backoffTime = Min(2 * backoffs[i].backoffTime, BackoffCap)

\* C33: the data connections the client holds open or has scheduled to open
\* never outnumber the three it opened at registration, whatever fails.
C33_OneReplacementPerFailure == live + scheduled <= InitialConnections

\* ------------------------------------------------ claims on stray responses

\* C34: a frame of a tunnel client whose requestId has no pending entry changes
\* nothing: the pending map, the timers, the registry and every Response are
\* after the handler what they were before it.
C34_StrayResponseChangesNothing ==
    [][\A s \in Sockets, m \in TunnelMessages :
         (/\ m.requestId \notin DOMAIN pendingResponses
          /\ TunnelMessage(s, m) \/ TunnelMessageIgnored(s)) =>
            /\ pendingResponses' = pendingResponses
            /\ timeout' = timeout
            /\ tunnels' = tunnels
            /\ res' = res]_vars

\* C34's case: one request has been answered (by its response, its timer or a
\* disconnect) and its id has no entry any more, while another request is
\* pending, unanswered, on a tunnel whose client can still send frames.
C34_Witness ==
    \E h1, h2 \in Callers :
        /\ Dispatched(h1) /\ res[h1].ended
        /\ requestId[h1] \notin DOMAIN pendingResponses
        /\ Dispatched(h2) /\ ~res[h2].ended
        /\ requestId[h2] \in DOMAIN pendingResponses
        /\ HasHandlers(reqTunnel[h2])

\* ------------------------------------------------ claims on the order of dispatch

\* C35: every request whose frame was sent on a tunnel's socket has a deadline
\* (its timer was armed) and was stored: its entry is in the pending map
\* until its caller is answered, so no response frame can name an id that was
\* sent and never stored.
C35_StoredAndArmedBeforeSent ==
    \A t \in Sockets : \A id \in sent[t] :
        /\ timeout[id] # "none"
        /\ \E h \in Callers :
              /\ requestId[h] = id
              /\ \/ id \in DOMAIN pendingResponses /\ pendingResponses[id].res = h
                 \/ res[h].ended

\* C35's case: a request was sent and answered by its response frame, while a
\* second request that was sent waits with its entry stored and its timer armed.
C35_Witness ==
    \E h1, h2 \in Callers :
        /\ Dispatched(h1) /\ Dispatched(h2)
        /\ requestId[h1] \in sent[reqTunnel[h1]]
        /\ res[h1].by = "response" /\ res[h1].from = requestId[h1]
        /\ requestId[h2] \in sent[reqTunnel[h2]]
        /\ requestId[h2] \in DOMAIN pendingResponses
        /\ timeout[requestId[h2]] = "armed"

\* ------------------------------------------------ claims on the tunnel's stats

\* C36: over every sequence of requests and steps of the clock the allowance
\* stays between 0 and 100, and no request takes anything off requestCount.
C36_StatsWithinBounds ==
    /\ 0 <= rateLimitRemaining
    /\ rateLimitRemaining <= DefaultRateLimit
    /\ counted >= 0

\* C36's case: a request that found the reset time passed, after the allowance
\* had been drawn on, was counted and set the allowance back to 100.
C36_Witness ==
    /\ lastAnswer = "forwarded"
    /\ counted = 1
    /\ forwarded = 1
    /\ rateLimitRemaining = DefaultRateLimit
    /\ hits > 1

\* C37: a request answered 429 for a used-up allowance, or 404 for a tunnel
\* that does not exist, leaves requestCount, the allowance and its reset time
\* as they were; a request that passes both checks is counted once.
C37_RejectedNotCounted ==
    [][/\ ((RateHandle /\ lastAnswer' = "limited") \/ RateNotFound) =>
            /\ counted' = 0
            /\ rateLimitRemaining' = rateLimitRemaining
            /\ resetIn' = resetIn
       /\ (RateHandle /\ lastAnswer' = "forwarded") => counted' = 1]_vars

\* C37's case: a request was answered 429 with the allowance used up.
C37_Witness ==
    /\ lastAnswer = "limited"
    /\ rateLimitRemaining = 0
    /\ counted = 0
    /\ forwarded = DefaultRateLimit

====
